---- MODULE Spec2Model ----
(***************************************************************************)
(* Model of dsproject/src/main.rs: construct_graph_from_file builds a      *)
(* directed multigraph from an edge-list file, then main runs              *)
(* basic_network_analysis, degree_distributions_analysis and               *)
(* closeness_centrality_analysis on it.                                    *)
(*                                                                         *)
(* A line is a sequence of one-character strings; a file is a sequence of  *)
(* lines.  The graph is petgraph's DiGraph<(), ()>: a node count (node     *)
(* indices are 0 .. nodes-1, handed out by add_node in that order) and the *)
(* vector of edges in insertion order.  A HashMap / BTreeMap is a function *)
(* with a finite domain.  An f64 score 1.0 / d is kept as the exact        *)
(* fraction [num |-> 1, den |-> d]; 0.0 is [num |-> 0, den |-> 1].         *)
(***************************************************************************)
EXTENDS Integers, Sequences, FiniteSets, TLC

VARIABLES file, pc, pos, graph, node_indices, from, to, i,
          degree_distribution, second_degree_distribution,
          centrality_scores, output

vars == <<file, pc, pos, graph, node_indices, from, to, i,
          degree_distribution, second_degree_distribution,
          centrality_scores, output>>

(***************************************************************************)
(* Bounds and program constants                                            *)
(***************************************************************************)
MaxLines == 3

NodeCap == 1000

PrintCount == 10

(***************************************************************************)
(* Text: str::starts_with, str::split_whitespace, str::parse::<usize>      *)
(***************************************************************************)
IsWhitespace(c) == c \in {" ", "\t"}

starts_with(line, c) == Len(line) > 0 /\ line[1] = c

IsDigit(c) == c \in {"0", "1", "2", "3", "4", "5", "6", "7", "8", "9"}

DigitValue(c) ==
    CASE c = "0" -> 0 [] c = "1" -> 1 [] c = "2" -> 2 [] c = "3" -> 3
      [] c = "4" -> 4 [] c = "5" -> 5 [] c = "6" -> 6 [] c = "7" -> 7
      [] c = "8" -> 8 [] c = "9" -> 9

\* The tokens of a line, left to right: maximal runs of non-whitespace.
\* cur is the token being scanned, acc the tokens already closed.
RECURSIVE SplitFrom(_, _, _, _)
SplitFrom(line, k, cur, acc) ==
    IF k > Len(line)
    THEN IF cur = <<>> THEN acc ELSE Append(acc, cur)
    ELSE IF IsWhitespace(line[k])
         THEN SplitFrom(line, k + 1, <<>>,
                        IF cur = <<>> THEN acc ELSE Append(acc, cur))
         ELSE SplitFrom(line, k + 1, Append(cur, line[k]), acc)

split_whitespace(line) == SplitFrom(line, 1, <<>>, <<>>)

ParseErr == [ok |-> FALSE, val |-> 0]

\* Accumulates the decimal digits of tok from position k; any other
\* character is an error.  (The overflow error above usize::MAX = 2^64 - 1
\* needs a token of 20 digits; the tokens of the modelled files have at
\* most four.)
RECURSIVE ParseDigits(_, _, _)
ParseDigits(tok, k, acc) ==
    IF k > Len(tok) THEN [ok |-> TRUE, val |-> acc]
    ELSE IF ~IsDigit(tok[k]) THEN ParseErr
    ELSE ParseDigits(tok, k + 1, acc * 10 + DigitValue(tok[k]))

\* Variant: a token that does not parse reads as 0 instead of failing.
parse_usize_lenient(tok) ==
    IF tok = <<>> THEN [ok |-> TRUE, val |-> 0]
    ELSE LET r == IF tok[1] = "+" THEN ParseDigits(tok, 2, 0)
                  ELSE ParseDigits(tok, 1, 0)
         IN  IF r.ok /\ tok # <<"+">> THEN r ELSE [ok |-> TRUE, val |-> 0]

\* usize::from_str: an optional leading '+', then at least one digit.
\* A leading '-' is not a sign for an unsigned type, so it is a bad digit.
parse_usize(tok) ==
    IF tok = <<>> THEN ParseErr
    ELSE IF tok[1] = "+"
         THEN IF Len(tok) = 1 THEN ParseErr ELSE ParseDigits(tok, 2, 0)
         ELSE ParseDigits(tok, 1, 0)

(***************************************************************************)
(* petgraph::graph::DiGraph<(), ()>                                        *)
(***************************************************************************)
DiGraph_new == [nodes |-> 0, edges |-> <<>>]

\* add_node returns the index of the node it appends.
add_node_index(g) == g.nodes

add_node(g) == [g EXCEPT !.nodes = @ + 1]

\* Variant: the edge is stored between the nodes after the given ones.
add_edge_shifted(g, a, b) == [g EXCEPT !.edges = Append(@, <<a + 1, b + 1>>)]

\* Variant: an edge that is already present is not stored again.
add_edge_dedup(g, a, b) ==
    IF \E k \in 1..Len(g.edges) : g.edges[k] = <<a, b>>
    THEN g
    ELSE [g EXCEPT !.edges = Append(@, <<a, b>>)]

add_edge(g, a, b) == [g EXCEPT !.edges = Append(@, <<a, b>>)]

node_count(g) == g.nodes

edge_count(g) == Len(g.edges)

\* Variant: the node indices in reverse creation order.
node_references_rev(g) == [k \in 1..g.nodes |-> g.nodes - k]

\* node_references yields the node indices in creation order.
node_references(g) == [k \in 1..g.nodes |-> k - 1]

\* The targets of the outgoing edges of a, most recently added edge first
\* (petgraph threads each new edge at the head of the node's edge list).
RECURSIVE NeighborsFrom(_, _, _)
NeighborsFrom(g, a, k) ==
    IF k = 0 THEN <<>>
    ELSE IF g.edges[k][1] = a
         THEN <<g.edges[k][2]>> \o NeighborsFrom(g, a, k - 1)
         ELSE NeighborsFrom(g, a, k - 1)

neighbors(g, a) == NeighborsFrom(g, a, Len(g.edges))

\* FixedBitSet visit map: the set of visited node indices.
visit_map(g) == {}

is_visited(visited, n) == n \in visited

visit(visited, n) == visited \cup {n}

(***************************************************************************)
(* HashMap / BTreeMap                                                      *)
(***************************************************************************)
EmptyMap == <<>>

\* *map.entry(k).or_insert(0) += 1
BumpEntry(m, k) ==
    IF k \in DOMAIN m THEN [m EXCEPT ![k] = @ + 1] ELSE m @@ (k :> 1)

\* map.insert(k, v)
insert(m, k, v) ==
    IF k \in DOMAIN m THEN [m EXCEPT ![k] = v] ELSE m @@ (k :> v)

(***************************************************************************)
(* basic_network_analysis: out-degree of one node                          *)
(***************************************************************************)
\* Variant: parallel edges to the same neighbour count once.
degree_distinct(g, n) ==
    Cardinality({neighbors(g, n)[k] : k \in 1..Len(neighbors(g, n))})

degree(g, n) == Len(neighbors(g, n))

(***************************************************************************)
(* degree_distributions_analysis: the two nested loops for one source      *)
(***************************************************************************)
\* Variant: the second neighbour is counted but never marked visited.
RECURSIVE InnerLoop_nomark(_, _, _)
InnerLoop_nomark(seconds, k, st) ==
    IF k > Len(seconds) THEN st
    ELSE IF ~is_visited(st.visited, seconds[k])
         THEN InnerLoop_nomark(seconds, k + 1,
                               [visited |-> st.visited,
                                count   |-> st.count + 1])
         ELSE InnerLoop_nomark(seconds, k + 1, st)

\* Inner loop: the second neighbours seconds[k..] against the state
\* st = [visited, count].
RECURSIVE InnerLoop(_, _, _)
InnerLoop(seconds, k, st) ==
    IF k > Len(seconds) THEN st
    ELSE IF ~is_visited(st.visited, seconds[k])
         THEN InnerLoop(seconds, k + 1,
                        [visited |-> visit(st.visited, seconds[k]),
                         count   |-> st.count + 1])
         ELSE InnerLoop(seconds, k + 1, st)

\* Outer loop over the first-hop neighbours firsts[k..].
RECURSIVE OuterLoop(_, _, _, _)
OuterLoop(g, firsts, k, st) ==
    IF k > Len(firsts) THEN st
    ELSE OuterLoop(g, firsts, k + 1,
                   InnerLoop(neighbors(g, firsts[k]), 1, st))

\* Variant: the source starts out visited, so it is never its own
\* second-degree neighbour.
second_degree_count_noself(g, n) ==
    OuterLoop(g, neighbors(g, n), 1,
              [visited |-> visit(visit_map(g), n), count |-> 0]).count

second_degree_count(g, n) ==
    OuterLoop(g, neighbors(g, n), 1,
              [visited |-> visit_map(g), count |-> 0]).count

(***************************************************************************)
(* petgraph::algo::dijkstra(graph, start, None, |_| 1)                     *)
(***************************************************************************)
edge_cost(e) == 1

\* The outgoing edges of a node, most recently added first.
RECURSIVE EdgesFrom(_, _, _)
EdgesFrom(g, a, k) ==
    IF k = 0 THEN <<>>
    ELSE IF g.edges[k][1] = a
         THEN <<g.edges[k]>> \o EdgesFrom(g, a, k - 1)
         ELSE EdgesFrom(g, a, k - 1)

\* Variant: the incoming edges of a node, each turned around.
RECURSIVE EdgesInto(_, _, _)
EdgesInto(g, a, k) ==
    IF k = 0 THEN <<>>
    ELSE IF g.edges[k][2] = a
         THEN <<<<a, g.edges[k][1]>>>> \o EdgesInto(g, a, k - 1)
         ELSE EdgesInto(g, a, k - 1)

edges_incoming(g, a) == EdgesInto(g, a, Len(g.edges))

edges(g, a) == EdgesFrom(g, a, Len(g.edges))

\* BinaryHeap<MinScored>::pop: an entry <<score, node>> of least score.
\* A pair is pushed only when the node's score is first set or strictly
\* lowered, so no pair is in the heap twice and a set holds the heap.
HeapMin(heap) ==
    CHOOSE m \in heap : \A e \in heap :
        m[1] < e[1] \/ (m[1] = e[1] /\ m[2] <= e[2])

\* Variant: an occupied entry is overwritten without comparing the scores.
RECURSIVE RelaxEdges_overwrite(_, _, _, _)
RelaxEdges_overwrite(es, k, node_score, st) ==
    IF k > Len(es) THEN st
    ELSE LET next       == es[k][2]
             next_score == node_score + edge_cost(es[k])
         IN  IF is_visited(st.visited, next)
             THEN RelaxEdges_overwrite(es, k + 1, node_score, st)
             ELSE RelaxEdges_overwrite(es, k + 1, node_score,
                    [st EXCEPT
                       !.scores = insert(@, next, next_score),
                       !.visit_next = @ \cup {<<next_score, next>>}])

\* The loop over graph.edges(node): st = [scores, visit_next, visited].
RECURSIVE RelaxEdges(_, _, _, _)
RelaxEdges(es, k, node_score, st) ==
    IF k > Len(es) THEN st
    ELSE LET next       == es[k][2]
             next_score == node_score + edge_cost(es[k])
         IN  IF is_visited(st.visited, next)
             THEN RelaxEdges(es, k + 1, node_score, st)
             ELSE IF next \in DOMAIN st.scores
                  THEN IF next_score < st.scores[next]
                       THEN RelaxEdges(es, k + 1, node_score,
                              [st EXCEPT
                                 !.scores = [@ EXCEPT ![next] = next_score],
                                 !.visit_next = @ \cup {<<next_score, next>>}])
                       ELSE RelaxEdges(es, k + 1, node_score, st)
                  ELSE RelaxEdges(es, k + 1, node_score,
                         [st EXCEPT
                            !.scores = @ @@ (next :> next_score),
                            !.visit_next = @ \cup {<<next_score, next>>}])

\* while let Some(MinScored(node_score, node)) = visit_next.pop()
RECURSIVE DijkstraLoop(_, _)
DijkstraLoop(g, st) ==
    IF st.visit_next = {} THEN st.scores
    ELSE LET m      == HeapMin(st.visit_next)
             popped == [st EXCEPT !.visit_next = @ \ {m}]
         IN  IF is_visited(st.visited, m[2])
             THEN DijkstraLoop(g, popped)
             ELSE LET relaxed == RelaxEdges(edges(g, m[2]), 1, m[1], popped)
                  IN  DijkstraLoop(g,
                        [relaxed EXCEPT !.visited = visit(@, m[2])])

dijkstra(g, start) ==
    DijkstraLoop(g, [scores     |-> (start :> 0),
                     visit_next |-> {<<0, start>>},
                     visited    |-> visit_map(g)])

(***************************************************************************)
(* closeness_centrality_analysis: one iteration for one node               *)
(***************************************************************************)
\* paths.values().sum()
RECURSIVE SumValues(_, _)
SumValues(m, keys) ==
    IF keys = {} THEN 0
    ELSE LET k == CHOOSE x \in keys : TRUE
         IN  m[k] + SumValues(m, keys \ {k})

total_distance(g, n) ==
    LET paths == dijkstra(g, n) IN SumValues(paths, DOMAIN paths)

Zero == [num |-> 0, den |-> 1]

closeness_centrality(g, n) ==
    LET total == total_distance(g, n)
    IN  IF total > 0 THEN [num |-> 1, den |-> total] ELSE Zero

\* Variant: no limit.
Min_nocap(a, b) == a

Min(a, b) == IF a <= b THEN a ELSE b

\* centrality_scores.iter().take(n): the n least keys of a BTreeMap, ascending.
RECURSIVE TakeKeys(_, _)
TakeKeys(keys, n) ==
    IF n = 0 \/ keys = {} THEN <<>>
    ELSE LET k == CHOOSE x \in keys : \A y \in keys : x <= y
         IN  <<k>> \o TakeKeys(keys \ {k}, n - 1)

(***************************************************************************)
(* Input files                                                             *)
(***************************************************************************)
Lines ==
    { <<"0", " ", "0">>,                      \* 0 0
      <<"0", " ", "1">>,                      \* 0 1
      <<" ", "1", "\t", "0", " ">>,           \* 1 0 with other whitespace
      <<"1", " ", "2">>,                      \* 1 2
      <<"+", "2", " ", "0", "0">>,            \* +2 00
      <<"#", "0", " ", "1">>,                 \* comment
      <<>>,                                   \* empty line
      <<"0", " ", "1", " ", "2">>,            \* three tokens
      <<"x", " ", "1">>,                      \* malformed source
      <<"0", " ", "-", "1">> }                \* malformed target

Files == UNION { [1..n -> Lines] : n \in 0..MaxLines }

\* Files whose largest index reaches the 1000-node limit of the centrality
\* sweep (1000, 1001 and 1002 nodes), and small ones below it.
CapFiles ==
    { <<>>,
      << <<"0", " ", "1">> >>,
      << <<"x", " ", "1">> >>,
      << <<"#", "0", " ", "1">>, <<>>, <<"1", " ", "2">>, <<"2", " ", "0">> >>,
      << <<"9", "9", "9", " ", "0">> >>,
      << <<"0", " ", "1", "0", "0", "0">>, <<"1", "0", "0", "0", " ", "1">> >>,
      << <<"1", " ", "0">>, <<"1", "0", "0", "1", " ", "1">> >> }

(***************************************************************************)
(* State machine                                                           *)
(***************************************************************************)
Say(text, args) == [text |-> text, args |-> args]

InitWith(files) ==
    /\ file \in files
    /\ pc = "open"
    /\ pos = 0
    /\ graph = DiGraph_new
    /\ node_indices = <<>>
    /\ from = 0
    /\ to = 0
    /\ i = 0
    /\ degree_distribution = EmptyMap
    /\ second_degree_distribution = EmptyMap
    /\ centrality_scores = EmptyMap
    /\ output = <<>>

Init == InitWith(Files)

InitCap == InitWith(CapFiles)

\* File::open(path)? succeeds.
OpenOk ==
    /\ pc = "open"
    /\ pc' = "read"
    /\ UNCHANGED <<file, pos, graph, node_indices, from, to, i,
                   degree_distribution, second_degree_distribution,
                   centrality_scores, output>>

\* File::open(path)? fails: construct_graph_from_file returns Err.
OpenFail ==
    /\ pc = "open"
    /\ pc' = "err"
    /\ UNCHANGED <<file, pos, graph, node_indices, from, to, i,
                   degree_distribution, second_degree_distribution,
                   centrality_scores, output>>

\* let line = line?; fails: construct_graph_from_file returns Err.
ReadError ==
    /\ pc = "read"
    /\ pos < Len(file)
    /\ pc' = "err"
    /\ UNCHANGED <<file, pos, graph, node_indices, from, to, i,
                   degree_distribution, second_degree_distribution,
                   centrality_scores, output>>

\* The loop body up to the growth loop, for the next line of the file.
ReadLine ==
    /\ pc = "read"
    /\ pos < Len(file)
    /\ pos' = pos + 1
    /\ LET line  == file[pos + 1]
           nodes == split_whitespace(line)
       IN  \/ /\ starts_with(line, "#")
              /\ UNCHANGED <<pc, from, to>>
           \/ /\ ~starts_with(line, "#")
              /\ Len(nodes) # 2
              /\ UNCHANGED <<pc, from, to>>
           \/ /\ ~starts_with(line, "#")
              /\ Len(nodes) = 2
              /\ \/ ~parse_usize(nodes[1]).ok
                 \/ ~parse_usize(nodes[2]).ok
              /\ pc' = "panicked"
              /\ UNCHANGED <<from, to>>
           \/ /\ ~starts_with(line, "#")
              /\ Len(nodes) = 2
              /\ parse_usize(nodes[1]).ok
              /\ parse_usize(nodes[2]).ok
              /\ from' = parse_usize(nodes[1]).val
              /\ to' = parse_usize(nodes[2]).val
              /\ pc' = "grow"
    /\ UNCHANGED <<file, graph, node_indices, i, degree_distribution,
                   second_degree_distribution, centrality_scores, output>>

\* The condition of the while loop.
needs_growth(len, f, t) == len <= f \/ len <= t

\* One iteration of the while loop: node_indices.push(graph.add_node(())).
GrowNode ==
    /\ pc = "grow"
    /\ needs_growth(Len(node_indices), from, to)
    /\ node_indices' = Append(node_indices, add_node_index(graph))
    /\ graph' = add_node(graph)
    /\ UNCHANGED <<file, pc, pos, from, to, i, degree_distribution,
                   second_degree_distribution, centrality_scores, output>>

\* The while loop exits: graph.add_edge(node_indices[from], node_indices[to], ()).
AddEdge ==
    /\ pc = "grow"
    /\ ~needs_growth(Len(node_indices), from, to)
    /\ graph' = add_edge(graph, node_indices[from + 1], node_indices[to + 1])
    /\ pc' = "read"
    /\ UNCHANGED <<file, pos, node_indices, from, to, i, degree_distribution,
                   second_degree_distribution, centrality_scores, output>>

\* reader.lines() is exhausted: Ok(graph); main enters its Ok arm.
ReturnGraph ==
    /\ pc = "read"
    /\ pos = Len(file)
    /\ pc' = "basic"
    /\ i' = 0
    /\ output' = Append(output, Say("Graph constructed successfully!", <<>>))
    /\ UNCHANGED <<file, pos, graph, node_indices, from, to,
                   degree_distribution, second_degree_distribution,
                   centrality_scores>>

\* basic_network_analysis: one iteration over graph.node_references().
BasicStep ==
    /\ pc = "basic"
    /\ i < node_count(graph)
    /\ degree_distribution' =
          BumpEntry(degree_distribution,
                    degree(graph, node_references(graph)[i + 1]))
    /\ i' = i + 1
    /\ UNCHANGED <<file, pc, pos, graph, node_indices, from, to,
                   second_degree_distribution, centrality_scores, output>>

\* basic_network_analysis: the four println! after the loop.
BasicPrint ==
    /\ pc = "basic"
    /\ i = node_count(graph)
    /\ output' = output \o
          << Say("Basic Network Analysis:", <<>>),
             Say("Number of nodes: {}", <<node_count(graph)>>),
             Say("Number of edges: {}", <<edge_count(graph)>>),
             Say("Degree Distribution: {:?}", <<degree_distribution>>) >>
    /\ pc' = "second"
    /\ i' = 0
    /\ UNCHANGED <<file, pos, graph, node_indices, from, to,
                   degree_distribution, second_degree_distribution,
                   centrality_scores>>

\* degree_distributions_analysis: one iteration over graph.node_references().
SecondStep ==
    /\ pc = "second"
    /\ i < node_count(graph)
    /\ second_degree_distribution' =
          BumpEntry(second_degree_distribution,
                    second_degree_count(graph, node_references(graph)[i + 1]))
    /\ i' = i + 1
    /\ UNCHANGED <<file, pc, pos, graph, node_indices, from, to,
                   degree_distribution, centrality_scores, output>>

\* degree_distributions_analysis returns second_degree_distribution.
SecondReturn ==
    /\ pc = "second"
    /\ i = node_count(graph)
    /\ pc' = "closeness"
    /\ i' = 0
    /\ UNCHANGED <<file, pos, graph, node_indices, from, to,
                   degree_distribution, second_degree_distribution,
                   centrality_scores, output>>

\* closeness_centrality_analysis: one iteration over
\* graph.node_references().take(node_count).enumerate().
ClosenessStep ==
    /\ pc = "closeness"
    /\ i < Min(node_count(graph), NodeCap)
    /\ centrality_scores' =
          insert(centrality_scores, i,
                 closeness_centrality(graph, node_references(graph)[i + 1]))
    /\ i' = i + 1
    /\ UNCHANGED <<file, pc, pos, graph, node_indices, from, to,
                   degree_distribution, second_degree_distribution, output>>

\* closeness_centrality_analysis returns centrality_scores.
ClosenessReturn ==
    /\ pc = "closeness"
    /\ i = Min(node_count(graph), NodeCap)
    /\ pc' = "print"
    /\ UNCHANGED <<file, pos, graph, node_indices, from, to, i,
                   degree_distribution, second_degree_distribution,
                   centrality_scores, output>>

\* main prints the header and the first 10 entries of the score table.
PrintScores ==
    /\ pc = "print"
    /\ LET keys == TakeKeys(DOMAIN centrality_scores, PrintCount)
       IN  output' = output \o
             << Say("Closeness Centrality Scores:", <<>>) >> \o
             [k \in 1..Len(keys) |->
                Say("Node {}: Closeness Centrality = {:.20}",
                    <<keys[k], centrality_scores[keys[k]]>>)]
    /\ pc' = "done"
    /\ UNCHANGED <<file, pos, graph, node_indices, from, to, i,
                   degree_distribution, second_degree_distribution,
                   centrality_scores>>

\* main's Err arm.
ReportError ==
    /\ pc = "err"
    /\ output' = Append(output, Say("Error constructing graph: {}", <<>>))
    /\ pc' = "done"
    /\ UNCHANGED <<file, pos, graph, node_indices, from, to, i,
                   degree_distribution, second_degree_distribution,
                   centrality_scores>>

Next ==
    \/ OpenOk
    \/ OpenFail
    \/ ReadError
    \/ ReadLine
    \/ GrowNode
    \/ AddEdge
    \/ ReturnGraph
    \/ BasicStep
    \/ BasicPrint
    \/ SecondStep
    \/ SecondReturn
    \/ ClosenessStep
    \/ ClosenessReturn
    \/ PrintScores
    \/ ReportError

Spec == Init /\ [][Next]_vars

SpecCap == InitCap /\ [][Next]_vars

(***************************************************************************)
(* Vocabulary of the properties                                            *)
(***************************************************************************)
\* Number of whitespace-separated tokens: positions where a token starts.
TokenCount(line) ==
    Cardinality({k \in 1..Len(line) :
                   /\ line[k] \notin {" ", "\t"}
                   /\ (k = 1 \/ line[k - 1] \in {" ", "\t"})})

IsComment(line) == line # <<>> /\ Head(line) = "#"

\* A line that does not start with '#' and has exactly two tokens.
IsEdgeLine(line) == ~IsComment(line) /\ TokenCount(line) = 2

\* A token that reads as a non-negative integer: digits, optionally after '+'.
IsNumber(tok) ==
    LET digits == IF tok # <<>> /\ Head(tok) = "+" THEN Tail(tok) ELSE tok
    IN  digits # <<>> /\ \A k \in 1..Len(digits) : IsDigit(digits[k])

\* An edge line with a token that is not a non-negative integer.
IsMalformed(line) ==
    /\ IsEdgeLine(line)
    /\ \E k \in 1..2 : ~IsNumber(split_whitespace(line)[k])

\* The endpoint indices on the well-formed edge lines among the first k lines.
EndpointsSeen(k) ==
    UNION { { parse_usize(split_whitespace(file[j])[1]).val,
              parse_usize(split_whitespace(file[j])[2]).val } :
            j \in { j \in 1..k : IsEdgeLine(file[j]) /\ ~IsMalformed(file[j]) } }

MaxOf(S) == CHOOSE x \in S : \A y \in S : y <= x

\* main took its Ok arm: the graph was returned and the analyses started.
GraphReturned ==
    output # <<>> /\ output[1].text = "Graph constructed successfully!"

\* Between two lines of the file, or after the last one.
LineDone == pc \notin {"open", "grow", "panicked"}

(***************************************************************************)
(* C1: as long as ingestion has not aborted, edge_count is the number of   *)
(* lines read so far that do not start with '#' and have exactly two       *)
(* tokens, duplicate edges counted each; reading a comment line or a line  *)
(* with another token count changes neither the nodes nor the edges.       *)
(***************************************************************************)
C1_EdgeCountInv ==
    LineDone =>
        edge_count(graph) =
            Cardinality({j \in 1..pos : IsEdgeLine(file[j])})

C1_SkipStep ==
    (pos' = pos + 1 /\ ~IsEdgeLine(file[pos + 1]))
        => (graph' = graph /\ node_indices' = node_indices /\ pc' = pc)

C1_EdgeCount == [](C1_EdgeCountInv) /\ [][C1_SkipStep]_vars

C1_Witness ==
    /\ pc = "basic"
    /\ Len(file) = 3
    /\ edge_count(graph) = 2
    /\ graph.edges[1] = graph.edges[2]

(***************************************************************************)
(* C2: every edge of the graph has both endpoints in [0, node_count), and  *)
(* after every ingested line node_count >= 1 + the largest endpoint index  *)
(* seen so far.                                                            *)
(***************************************************************************)
C2_NodesCoverEndpoints ==
    /\ \A k \in 1..edge_count(graph) :
          /\ graph.edges[k][1] \in 0..(node_count(graph) - 1)
          /\ graph.edges[k][2] \in 0..(node_count(graph) - 1)
    /\ LineDone =>
          \A x \in EndpointsSeen(pos) : node_count(graph) >= 1 + x

C2_Witness ==
    /\ pc = "read"
    /\ node_count(graph) = 3
    /\ edge_count(graph) = 1

(***************************************************************************)
(* C3: once basic_network_analysis has built the degree histogram, its     *)
(* counts add up to node_count and its degree * count products add up to   *)
(* edge_count.                                                             *)
(***************************************************************************)
RECURSIVE SumOver(_, _, _)
SumOver(m, keys, weighted) ==
    IF keys = {} THEN 0
    ELSE LET k == CHOOSE x \in keys : TRUE
         IN  (IF weighted THEN k * m[k] ELSE m[k])
             + SumOver(m, keys \ {k}, weighted)

BasicLoopDone ==
    \/ pc = "basic" /\ i = node_count(graph)
    \/ pc \in {"second", "closeness", "print"}
    \/ pc = "done" /\ GraphReturned

C3_DegreeHistogramSums ==
    BasicLoopDone =>
        /\ SumOver(degree_distribution, DOMAIN degree_distribution, FALSE)
             = node_count(graph)
        /\ SumOver(degree_distribution, DOMAIN degree_distribution, TRUE)
             = edge_count(graph)

C3_Witness ==
    /\ pc = "second"
    /\ edge_count(graph) = 3
    /\ graph.edges[1] = graph.edges[2]
    /\ Cardinality(DOMAIN degree_distribution) = 2

(***************************************************************************)
(* Two-hop and shortest-path vocabulary, from the edge set alone           *)
(***************************************************************************)
Nodes == 0..(node_count(graph) - 1)

HasEdge(a, b) == \E k \in 1..Len(graph.edges) : graph.edges[k] = <<a, b>>

\* The distinct nodes w with a directed two-hop path s -> v -> w.
TwoHop(s) == {w \in Nodes : \E v \in Nodes : HasEdge(s, v) /\ HasEdge(v, w)}

\* The number of two-hop paths from s, edge by edge.
TwoHopPaths(s) ==
    Cardinality({p \in (1..Len(graph.edges)) \X (1..Len(graph.edges)) :
                   /\ graph.edges[p[1]][1] = s
                   /\ graph.edges[p[2]][1] = graph.edges[p[1]][2]})

\* The histogram of f over the node set S: value |-> number of nodes.
HistogramOf(S, f(_)) ==
    [c \in {f(s) : s \in S} |-> Cardinality({s \in S : f(s) = c})]

TwoHopSize(s) == Cardinality(TwoHop(s))

SecondLoopDone ==
    \/ pc = "second" /\ i = node_count(graph)
    \/ pc \in {"closeness", "print"}
    \/ pc = "done" /\ GraphReturned

\* Breadth-first layers: the sum of d * (number of nodes first reached at
\* hop d), starting from the layer `frontier` at distance d.
RECURSIVE LayerSum(_, _, _)
LayerSum(frontier, seen, d) ==
    IF frontier = {} THEN 0
    ELSE LET next == {w \in Nodes \ seen : \E v \in frontier : HasEdge(v, w)}
         IN  d * Cardinality(frontier) + LayerSum(next, seen \cup next, d + 1)

HopDistanceSum(s) == LayerSum({s}, {s}, 0)

\* The nodes other than s that s reaches by at least one edge.
ReachesOther(s) == \E w \in Nodes \ {s} : HasEdge(s, w)

(***************************************************************************)
(* C4 as stated: every per-source second-degree count that is bucketed     *)
(* into the second-degree histogram is >= 0 and <= node_count - 1.         *)
(***************************************************************************)
C4_CountBelowNodeCount ==
    \A c \in DOMAIN second_degree_distribution :
        c >= 0 /\ c <= node_count(graph) - 1

(***************************************************************************)
(* C4 amended: every per-source second-degree count that is bucketed into  *)
(* the second-degree histogram is >= 0 and <= node_count.                  *)
(***************************************************************************)
C4_CountAtMostNodeCount ==
    \A c \in DOMAIN second_degree_distribution :
        c >= 0 /\ c <= node_count(graph)

C4_Witness ==
    /\ SecondLoopDone
    /\ node_count(graph) = 2
    /\ node_count(graph) \in DOMAIN second_degree_distribution

(***************************************************************************)
(* C5: the histogram built by degree_distributions_analysis maps each      *)
(* value c to the number of nodes whose set of distinct two-hop targets    *)
(* has c elements (the source included when it is one of them, a node      *)
(* without outgoing edges in bucket 0); while the loop runs it is that     *)
(* histogram over the sources already processed.                           *)
(***************************************************************************)
C5_SecondDegreeHistogram ==
    /\ pc = "second" =>
          second_degree_distribution = HistogramOf(0..(i - 1), TwoHopSize)
    /\ SecondLoopDone =>
          second_degree_distribution = HistogramOf(Nodes, TwoHopSize)

C5_Witness ==
    /\ pc = "closeness"
    /\ \E s \in Nodes : s \in TwoHop(s) /\ TwoHopPaths(s) > TwoHopSize(s)
    /\ \E t \in Nodes : ~(\E w \in Nodes : HasEdge(t, w))
    /\ 0 \in DOMAIN second_degree_distribution

(***************************************************************************)
(* C6: for every node scored by closeness_centrality_analysis the total    *)
(* distance is the sum of the breadth-first hop distances to the nodes it  *)
(* reaches; the score is 0.0 exactly when the node reaches no other node,  *)
(* and otherwise 1/sum, which lies in (0, 1].                              *)
(***************************************************************************)
C6_ClosenessScore ==
    pc \in {"closeness", "print"} =>
        \A n \in DOMAIN centrality_scores :
            /\ total_distance(graph, n) = HopDistanceSum(n)
            /\ (centrality_scores[n] = Zero) <=> (HopDistanceSum(n) = 0)
            /\ (HopDistanceSum(n) = 0) <=> ~ReachesOther(n)
            /\ HopDistanceSum(n) # 0 =>
                  /\ centrality_scores[n] = [num |-> 1, den |-> HopDistanceSum(n)]
                  /\ 0 < centrality_scores[n].num
                  /\ centrality_scores[n].num <= centrality_scores[n].den

C6_Witness ==
    /\ pc = "print"
    /\ \E a, b \in DOMAIN centrality_scores :
          /\ centrality_scores[a] = Zero
          /\ HasEdge(a, a)
          /\ centrality_scores[b].den = 3

(***************************************************************************)
(* C7: the score table returned by closeness_centrality_analysis has       *)
(* exactly min(node_count, 1000) entries, with keys 0 .. min(node_count,   *)
(* 1000) - 1; it is non-empty whenever the graph has a node.               *)
(***************************************************************************)
C7_TableSize ==
    (pc = "print" \/ (pc = "done" /\ GraphReturned)) =>
        LET n == IF node_count(graph) <= 1000 THEN node_count(graph) ELSE 1000
        IN  /\ DOMAIN centrality_scores = 0..(n - 1)
            /\ Cardinality(DOMAIN centrality_scores) = n
            /\ node_count(graph) >= 1 => centrality_scores # EmptyMap

C7_Witness ==
    /\ pc = "print"
    /\ node_count(graph) = 1002
    /\ Cardinality(DOMAIN centrality_scores) = 1000

(***************************************************************************)
(* C8: for the file with the single line `0 0`: node_count = 1,            *)
(* edge_count = 1, the degree histogram is {1: 1}, the distances from node *)
(* 0 are {0: 0}, their sum is 0 and the score of node 0 is 0.0.            *)
(***************************************************************************)
C8_SelfLoopExample ==
    (file = << <<"0", " ", "0">> >> /\ pc = "print") =>
        /\ node_count(graph) = 1
        /\ edge_count(graph) = 1
        /\ degree_distribution = (1 :> 1)
        /\ dijkstra(graph, 0) = (0 :> 0)
        /\ total_distance(graph, 0) = 0
        /\ centrality_scores = (0 :> Zero)

C8_Witness ==
    /\ file = << <<"0", " ", "0">> >>
    /\ pc = "print"
    /\ output[3].args = <<1>>

(***************************************************************************)
(* C9: an edge line with a token that is not a non-negative integer aborts *)
(* construct_graph_from_file at that line: no later line is read, no graph *)
(* is returned, no analysis runs and nothing more happens; a file that     *)
(* cannot be opened or read gives an error that main reports, without      *)
(* running any analysis.                                                   *)
(***************************************************************************)
NoAnalysis ==
    /\ degree_distribution = EmptyMap
    /\ second_degree_distribution = EmptyMap
    /\ centrality_scores = EmptyMap

C9_AbortInv ==
    /\ \A j \in 1..pos : IsMalformed(file[j]) => (pc = "panicked" /\ j = pos)
    /\ pc = "panicked" =>
          IsMalformed(file[pos]) /\ output = <<>> /\ NoAnalysis
    /\ pc = "err" => output = <<>> /\ NoAnalysis
    /\ (pc = "done" /\ ~GraphReturned) =>
          /\ output = << Say("Error constructing graph: {}", <<>>) >>
          /\ NoAnalysis

C9_AbortStep ==
    /\ pc # "panicked"
    /\ pc = "err" => pc' = "done" /\ ~GraphReturned'

C9_Aborts == [](C9_AbortInv) /\ [][C9_AbortStep]_vars

C9_Witness ==
    /\ pc = "panicked"
    /\ pos = 2
    /\ Len(file) = 3
    /\ edge_count(graph) = 1

(***************************************************************************)
(* C10: the k-th created node is stored at node_indices[k] and has graph   *)
(* index k; between lines node_count is exactly 1 + the largest endpoint   *)
(* index seen (0 when no edge line was seen) and never more than that      *)
(* while growing; key i of the score table holds the score of the node     *)
(* that input index i stands for.                                          *)
(***************************************************************************)
ExpectedNodeCount(k) ==
    IF EndpointsSeen(k) = {} THEN 0 ELSE 1 + MaxOf(EndpointsSeen(k))

C10_IndexIdentity ==
    /\ Len(node_indices) = node_count(graph)
    /\ \A k \in 0..(Len(node_indices) - 1) : node_indices[k + 1] = k
    /\ pc # "grow" => node_count(graph) = ExpectedNodeCount(pos)
    /\ pc = "grow" => node_count(graph) <= ExpectedNodeCount(pos)
    /\ \A k \in DOMAIN centrality_scores :
          centrality_scores[k] = closeness_centrality(graph, node_indices[k + 1])

C10_Witness ==
    /\ pc = "print"
    /\ node_count(graph) = 3
    /\ \E a, b \in DOMAIN centrality_scores :
          centrality_scores[a] # centrality_scores[b]

====
